---- MODULE Spec2Model ----
(***************************************************************************)
(* Model of the robot-search backend (server.js): the GET /api/search      *)
(* aggregation pipeline and the POST /api/smart-search handler.            *)
(*                                                                         *)
(* Strings the code takes apart (split, trim, fuzzy match) are sequences   *)
(* of one-character strings.  A JavaScript value that may be undefined or  *)
(* null is a sequence of length 0 (None) or 1 (Some(v)).                   *)
(***************************************************************************)
EXTENDS Integers, Sequences, FiniteSets, TLC

VARIABLES
  s_pc,            \* /api/search handler: "idle" | "awaiting" | "done"
  s_origin,        \* who sent the search request: "none" | "client" | "smart"
  req,             \* req.query of the search request
  searchPromises,  \* per source: "none" | "pending" | "settled"
  upstreamCalls,   \* per source: the upstream request issued (None or Some)
  delivered,       \* per source: what the upstream answered (None or Some)
  allResults,      \* the accumulator of the handler
  aggregated,      \* value of allResults at the join (after Promise.allSettled)
  afterFuse,       \* value of finalResults after the relevance stage
  afterTags,       \* value of finalResults after the tag filter, before the sort
  s_response,      \* responses sent by the search handler
  m_pc,            \* smart-search handler: "idle" | "expanding" | "searching" | "done"
  apiKeySet,       \* whether a text-completion credential is configured:
                   \* None until smart-search first uses it, then Some(BOOLEAN)
  description,     \* req.body.description
  keywords,        \* the keyword string (None until computed)
  collabCalls,     \* number of generateContent calls made
  searchCalls,     \* number of calls smart-search made to /api/search
  collabOutcome,   \* how generateContent ended: "none" | "returned" | "threw"
  searchOutcome,   \* how the call to /api/search ended:
                   \* "none" | "pending" | "returned" | "threw"
  m_response,      \* responses sent by the smart-search handler
  \* two invocations of the /api/search handler under way together,
  \* each variable a function of the invocation
  c_pc,            \* "idle" | "awaiting" | "done"
  c_req,           \* req.query of the invocation
  c_searchPromises,\* per source: "none" | "pending" | "settled"
  c_delivered,     \* per source: what the upstream answered
  c_allResults,    \* the accumulators, by accumulator cell
  c_response,      \* responses sent by the invocation
  c_overlapped     \* an invocation began while the other was awaiting

vars == << s_pc, s_origin, req, searchPromises, upstreamCalls, delivered,
           allResults, aggregated, afterFuse, afterTags, s_response,
           m_pc, apiKeySet, description, keywords, collabCalls, searchCalls,
           collabOutcome, searchOutcome, m_response,
           c_pc, c_req, c_searchPromises, c_delivered, c_allResults,
           c_response, c_overlapped >>

searchVars == << s_pc, s_origin, req, searchPromises, upstreamCalls, delivered,
                 allResults, aggregated, afterFuse, afterTags, s_response >>

smartVars == << m_pc, description, keywords, collabCalls, searchCalls,
               collabOutcome, searchOutcome, m_response >>

concVars == << c_pc, c_req, c_searchPromises, c_delivered, c_allResults,
              c_response, c_overlapped >>

-----------------------------------------------------------------------------
(* Bounds *)

\* most raw items one upstream response carries in the model
MaxItems == 2

-----------------------------------------------------------------------------
(* Values *)

None == << >>
Some(v) == << v >>

GitHub == "GitHub"
HuggingFace == "Hugging Face"
Sources == { GitHub, HuggingFace }

\* per_page / limit of the upstream requests
PerPage == 50

\* threshold: 0.4 of the Fuse options, in hundredths
FuseThreshold == 40

\* timeout of the smart-search call to /api/search, in milliseconds
SearchTimeout == 15000

str_empty == << >>
str_ros == << "r","o","s" >>
str_ROS == << "R","O","S" >>
str_nav == << "n","a","v" >>
str_arm == << "a","r","m" >>
str_aim == << "a","i","m" >>
str_rl == << "r","l" >>
str_humanoid == << "h","u","m","a","n","o","i","d" >>
str_ros_nav == << "r","o","s",",","n","a","v" >>
str_my_arm == << "m","y"," ","a","r","m" >>
str_arm_ros == << "a","r","m",","," ","r","o","s" >>

-----------------------------------------------------------------------------
(* String helpers: what the JavaScript string methods do *)

UpperLetters == << "A","B","C","D","E","F","G","H","I","J","K","L","M","N","O","P","Q","R","S","T","U","V","W","X","Y","Z" >>
LowerLetters == << "a","b","c","d","e","f","g","h","i","j","k","l","m","n","o","p","q","r","s","t","u","v","w","x","y","z" >>

\* upper-case letter -> lower-case letter
LowerOf ==
  [ c \in { UpperLetters[i] : i \in 1..Len(UpperLetters) } |->
      LowerLetters[CHOOSE i \in 1..Len(UpperLetters) : UpperLetters[i] = c] ]

\* String.prototype.toLowerCase on one character
ToLowerChar(c) == IF c \in DOMAIN LowerOf THEN LowerOf[c] ELSE c

ToLower(s) == [ i \in 1..Len(s) |-> ToLowerChar(s[i]) ]

\* s.split(sep) for a one-character separator: "".split(",") is [""]
RECURSIVE Split(_, _)
Split(s, sep) ==
  IF \A i \in 1..Len(s) : s[i] # sep
    THEN << s >>
    ELSE LET i == CHOOSE i \in 1..Len(s) :
                    s[i] = sep /\ \A j \in 1..(i-1) : s[j] # sep
         IN  << SubSeq(s, 1, i-1) >> \o Split(SubSeq(s, i+1, Len(s)), sep)

\* list.join(sep)
RECURSIVE Join(_, _)
Join(list, sep) ==
  IF list = << >> THEN << >>
  ELSE IF Len(list) = 1 THEN list[1]
  ELSE list[1] \o sep \o Join(Tail(list), sep)

\* s.trim()
RECURSIVE Trim(_)
Trim(s) ==
  IF s = << >> THEN s
  ELSE IF s[1] = " " THEN Trim(Tail(s))
  ELSE IF s[Len(s)] = " " THEN Trim(SubSeq(s, 1, Len(s) - 1))
  ELSE s

\* JavaScript truthiness of an optional string: undefined and "" are falsy
Truthy(opt) == opt # None /\ opt[1] # << >>

\* array.includes(x)
Includes(list, x) == \E i \in 1..Len(list) : list[i] = x

-----------------------------------------------------------------------------
(* Normalizers *)

standardizeGithubProject(item) ==
  [ id          |-> item.id,
    name        |-> item.full_name,
    description |-> item.description,
    url         |-> item.html_url,
    source      |-> GitHub,
    tags        |-> IF item.topics = None THEN << >> ELSE item.topics[1],
    stars       |-> item.stargazers_count,
    downloads   |-> None ]

HuggingFaceUrlPrefix == << "h","t","t","p","s",":","/","/","h","u","g","g","i","n","g","f","a","c","e",".","c","o","/" >>

standardizeHuggingFaceModel(item) ==
  [ id          |-> item.id,
    name        |-> item.modelId,
    description |-> item.pipeline_tag,
    url         |-> HuggingFaceUrlPrefix \o item.modelId,
    source      |-> HuggingFace,
    tags        |-> IF item.tags = None THEN << >> ELSE item.tags[1],
    stars       |-> None,
    downloads   |-> item.downloads ]

\* response.data.items.map(standardizeGithubProject) / response.data.map(...)
NormalizeBody(src, items) ==
  [ i \in 1..Len(items) |->
      IF src = GitHub THEN standardizeGithubProject(items[i])
                      ELSE standardizeHuggingFaceModel(items[i]) ]

-----------------------------------------------------------------------------
(* What the upstream sources can answer *)

\* raw GitHub repositories: both carry the same id, the second lacks the
\* optional fields
GithubRawItems ==
  { [ id |-> << "1" >>, full_name |-> str_humanoid, description |-> Some(str_arm),
      html_url |-> << "g","1" >>, topics |-> Some(<< str_ros >>),
      stargazers_count |-> Some(5) ],
    [ id |-> << "1" >>, full_name |-> str_aim, description |-> None,
      html_url |-> << "g","2" >>, topics |-> None,
      stargazers_count |-> None ] }

\* raw Hugging Face models
HuggingFaceRawItems ==
  { [ id |-> str_arm, modelId |-> str_arm, pipeline_tag |-> Some(str_rl),
      tags |-> Some(<< str_nav, str_ROS >>), downloads |-> Some(20) ],
    [ id |-> str_nav, modelId |-> str_nav, pipeline_tag |-> None,
      tags |-> None, downloads |-> Some(5) ] }

RawItems(src) == IF src = GitHub THEN GithubRawItems ELSE HuggingFaceRawItems

SeqsUpTo(S, n) == UNION { [ 1..k -> S ] : k \in 0..n }

\* an upstream outcome: a well-formed body, a body whose shape makes the
\* .then callback throw (no items array), or a network / HTTP error
Outcomes(src) ==
  { [ kind |-> "ok", items |-> b ] : b \in SeqsUpTo(RawItems(src), MaxItems) }
  \cup { [ kind |-> "malformed", items |-> << >> ],
         [ kind |-> "error", items |-> << >> ] }

-----------------------------------------------------------------------------
(* Upstream query construction *)

\* The case labels of the switch in getSearchQuery are the category names of
\* the user interface (non-ASCII strings in the source); here each is named
\* by the first keyword group it adds.  Each case appends its keywords
\* joined by " OR "; the default case appends nothing.
RobotTypeKeywords(robotType) ==
  CASE robotType = Some("humanoid-robot") ->
         << << "h","u","m","a","n","o","i","d" >>,
            << "b","i","p","e","d","a","l" >> >>
    [] robotType = Some("mobile-robot") ->
         << << "m","o","b","i","l","e","-","r","o","b","o","t" >>,
            << "a","g","v" >>,
            << "n","a","v","i","g","a","t","i","o","n" >> >>
    [] robotType = Some("robotic-arm") ->
         << << "r","o","b","o","t","i","c","-","a","r","m" >>,
            << "m","a","n","i","p","u","l","a","t","o","r" >>,
            << "e","n","d","-","e","f","f","e","c","t","o","r" >> >>
    [] robotType = Some("legged-robot") ->
         << << "l","e","g","g","e","d","-","r","o","b","o","t" >>,
            << "q","u","a","d","r","u","p","e","d","a","l" >>,
            << "h","e","x","a","p","o","d" >> >>
    [] robotType = Some("dexterous-hand") ->
         << << "d","e","x","t","e","r","o","u","s","-","h","a","n","d" >>,
            << "g","r","i","p","p","e","r" >> >>
    [] robotType = Some("desktop-robot") ->
         << << "d","e","s","k","t","o","p","-","r","o","b","o","t" >>,
            << "t","i","n","y","-","r","o","b","o","t" >> >>
    [] robotType = Some("pet-robot") ->
         << << "p","e","t","-","r","o","b","o","t" >>,
            << "c","o","m","p","a","n","i","o","n","-","r","o","b","o","t" >> >>
    [] robotType = Some("educational-robot") ->
         << << "e","d","u","c","a","t","i","o","n","a","l","-","r","o","b","o","t" >>,
            << "t","e","a","c","h","i","n","g","-","r","o","b","o","t" >> >>
    [] OTHER -> << >>

RecognizedRobotTypes ==
  { "humanoid-robot", "mobile-robot", "robotic-arm", "legged-robot",
    "dexterous-hand", "desktop-robot", "pet-robot", "educational-robot" }

str_OR == << " ","O","R"," " >>
str_robotics == << " ","r","o","b","o","t","i","c","s" >>

\* getSearchQuery(baseQuery), with robotType of the request
getSearchQuery(baseQuery, robotType) ==
  LET base == IF Truthy(baseQuery) THEN baseQuery[1] ELSE << >>
      kws  == RobotTypeKeywords(robotType)
      cat  == IF kws = << >> THEN << >> ELSE << " " >> \o Join(kws, str_OR)
  IN  Trim(base \o cat \o str_robotics)

\* getDateNDaysAgo(days) is kept as the lookback in days
GithubLookback(sort) ==
  IF sort = Some("growth_week") THEN Some(7)
  ELSE IF sort = Some("growth_month") THEN Some(30)
  ELSE None

\* the request sent to the GitHub search API
GithubCall(r) ==
  [ q |-> getSearchQuery(r.query, r.robotType),
    pushedAfterDaysAgo |-> GithubLookback(r.sort),
    sort |-> "stars",
    limit |-> PerPage ]

\* the request sent to the Hugging Face models API
HuggingFaceCall(r) ==
  [ q |-> getSearchQuery(r.query, r.robotType),
    pushedAfterDaysAgo |-> None,
    sort |-> IF r.sort = Some("growth_week") \/ r.sort = Some("growth_month")
               THEN "lastUpdated" ELSE "downloads",
    limit |-> PerPage ]

\* a source test that would treat a missing source as 'All'
SourceEnabledByDefault(source, src) ==
  source = None \/ source = Some("All") \/ source = Some(src)

\* source === 'All' || source === '<name>'
SourceEnabled(source, src) == source = Some("All") \/ source = Some(src)

-----------------------------------------------------------------------------
(* Relevance stage: Fuse over name, description and tags, threshold 0.4 *)

\* the strings of an item Fuse indexes: keys name, description, tags
FuseTexts(item) == << item.name >> \o item.description \o item.tags

\* characters of the pattern that differ from the text at offset p
\* (Fuse compares case-insensitively: pattern and text are lower-cased)
FuseErrors(pattern, text, p) ==
  Cardinality({ k \in 1..Len(pattern) :
                  \/ p + k - 1 > Len(text)
                  \/ text[p + k - 1] # pattern[k] })

\* Fuse's score errors/len + location/distance (distance 100), scaled by
\* 100 * Len(pattern) to stay in the integers
FuseScoreAt(pattern, text, p) ==
  100 * FuseErrors(pattern, text, p) + (p - 1) * Len(pattern)

FuseScores(pattern, item) ==
  LET pat   == ToLower(pattern)
      texts == [ i \in 1..Len(FuseTexts(item)) |-> ToLower(FuseTexts(item)[i]) ]
  IN  UNION { { FuseScoreAt(pat, texts[i], p) : p \in 1..Len(texts[i]) } :
                i \in 1..Len(texts) }

\* whether Fuse reports the item as matching the pattern
FuseMatches(pattern, item) ==
  \E sc \in FuseScores(pattern, item) : sc <= FuseThreshold * Len(pattern)

FuseItemScore(pattern, item) ==
  CHOOSE sc \in FuseScores(pattern, item) :
    \A other \in FuseScores(pattern, item) : sc <= other

\* Fuse orders its results by score, best first, ties by index
RECURSIVE FuseSort(_, _)
FuseSort(pattern, list) ==
  IF list = << >> THEN << >>
  ELSE LET n      == Len(list)
           sorted == FuseSort(pattern, SubSeq(list, 1, n - 1))
           x      == list[n]
           k      == Cardinality({ i \in 1..Len(sorted) :
                       FuseItemScore(pattern, sorted[i]) <= FuseItemScore(pattern, x) })
       IN  SubSeq(sorted, 1, k) \o << x >> \o SubSeq(sorted, k + 1, Len(sorted))

\* fuse.search(query).map(result => result.item)
FuseSearch(pattern, list) ==
  FuseSort(pattern, SelectSeq(list, LAMBDA it : FuseMatches(pattern, it)))

\* a relevance stage that would drop the result of fuse.search
RelevanceStageSkipped(query, list) == list

\* if (query) finalResults = fuse.search(query).map(...)
RelevanceStage(query, list) ==
  IF Truthy(query) THEN FuseSearch(query[1], list) ELSE list

-----------------------------------------------------------------------------
(* Tag filter *)

\* a predicate that would use every() in place of some()
HasOnlySelectedTags(project, selectedTagsArray) ==
  \A i \in 1..Len(project.tags) : Includes(selectedTagsArray, project.tags[i])

\* project.tags && project.tags.some(tag => selectedTagsArray.includes(tag))
HasSelectedTag(project, selectedTagsArray) ==
  \E i \in 1..Len(project.tags) : Includes(selectedTagsArray, project.tags[i])

\* if (tags && tags.length > 0) finalResults = finalResults.filter(...)
TagStage(tags, list) ==
  IF Truthy(tags)
    THEN LET selectedTagsArray == Split(tags[1], ",")
         IN  SelectSeq(list, LAMBDA project : HasSelectedTag(project, selectedTagsArray))
    ELSE list

-----------------------------------------------------------------------------
(* Final sort *)

\* a.stars || a.downloads || 0
Score(a) ==
  IF a.stars # None /\ a.stars[1] # 0 THEN a.stars[1]
  ELSE IF a.downloads # None /\ a.downloads[1] # 0 THEN a.downloads[1]
  ELSE 0

\* a comparator that would sort ascending
SortCompareAscending(a, b) == Score(a) - Score(b)

\* the comparator (a, b) => scoreB - scoreA
SortCompare(a, b) == Score(b) - Score(a)

\* Array.prototype.sort(SortCompare): stable; x goes before the first
\* element the comparator orders after it
RECURSIVE ArraySort(_)
ArraySort(list) ==
  IF list = << >> THEN << >>
  ELSE LET n      == Len(list)
           sorted == ArraySort(SubSeq(list, 1, n - 1))
           x      == list[n]
           after  == { i \in 1..Len(sorted) : SortCompare(sorted[i], x) > 0 }
           k      == IF after = { } THEN Len(sorted)
                     ELSE (CHOOSE i \in after : \A j \in after : i <= j) - 1
       IN  SubSeq(sorted, 1, k) \o << x >> \o SubSeq(sorted, k + 1, Len(sorted))

-----------------------------------------------------------------------------
(* Requests *)

str_arm_padded == << " ","a","r","m"," " >>

QueryParams == { None, Some(str_empty), Some(str_arm) }
SourceParams == { None, Some("All"), Some(GitHub), Some(HuggingFace), Some("GitLab") }
TagParams == { None, Some(str_empty), Some(str_ros), Some(str_ros_nav) }
SortParams == { None, Some("growth"), Some("growth_week"), Some("growth_month"),
                Some("stars") }
RobotTypeParams == { None, Some("humanoid-robot"), Some("All") }

\* req.query of GET /api/search.  sort and robotType only shape the upstream
\* query, so each is varied with the other one absent.
SearchRequests ==
  { r \in [ query : QueryParams, source : SourceParams, tags : TagParams,
            sort : SortParams, robotType : RobotTypeParams ] :
      r.sort = None \/ r.robotType = None }

\* req.body.description of POST /api/smart-search
Descriptions == { None, Some(str_empty), Some(str_my_arm), Some(str_arm) }

\* texts the text-completion collaborator can return
GeneratedTexts == { str_arm_padded, str_arm_ros }

NoRequest ==
  [ query |-> None, source |-> None, tags |-> None, sort |-> None,
    robotType |-> None ]

-----------------------------------------------------------------------------
(* GET /api/search *)

\* a .catch callback that would answer the request with an error
OnFetchErrorResponds(responses) ==
  Append(responses, [ status |-> 500, body |-> << >> ])

\* the .catch callback of a fetch: logs the error, sends nothing
OnFetchError(responses) == responses

\* a .then callback that would assign its own items to the accumulator
OnFetchResponseOverwrites(src, o, acc) ==
  IF o.kind = "ok" THEN NormalizeBody(src, o.items) ELSE acc

\* the .then callback of a fetch: normalizes the body and appends it to the
\* accumulator; a body without the items array makes it throw before the
\* assignment, and the .catch callback takes over
OnFetchResponse(src, o, acc) ==
  IF o.kind = "ok" THEN acc \o NormalizeBody(src, o.items) ELSE acc

\* a join that would wait for the first promise only
AnySettled(promises) ==
  \/ \A src \in Sources : promises[src] = "none"
  \/ \E src \in Sources : promises[src] = "settled"

\* await Promise.allSettled(searchPromises): no promise is pending
AllSettled(promises) == \A src \in Sources : promises[src] # "pending"

\* the handler up to the await: one fetch is started per enabled source
StartSearch(r, origin) ==
  /\ s_pc = "idle"
  /\ s_pc' = "awaiting"
  /\ s_origin' = origin
  /\ req' = r
  /\ allResults' = << >>
  /\ searchPromises' =
       [ src \in Sources |->
           IF SourceEnabled(r.source, src) THEN "pending" ELSE "none" ]
  /\ upstreamCalls' =
       [ src \in Sources |->
           IF ~SourceEnabled(r.source, src) THEN None
           ELSE IF src = GitHub THEN Some(GithubCall(r))
           ELSE Some(HuggingFaceCall(r)) ]
  /\ UNCHANGED << delivered, aggregated, afterFuse, afterTags, s_response >>

\* a client sends GET /api/search
ReceiveSearch ==
  /\ m_pc = "idle"
  /\ \E r \in SearchRequests : StartSearch(r, "client")
  /\ UNCHANGED << smartVars, apiKeySet >>
  /\ UNCHANGED concVars

\* an upstream answers with a body: the .then callback runs (and, when it
\* throws, the .catch callback) before any other event is handled
FetchFulfilled(src) ==
  /\ s_pc = "awaiting"
  /\ searchPromises[src] = "pending"
  /\ \E o \in Outcomes(src) :
       /\ o.kind # "error"
       /\ delivered' = [ delivered EXCEPT ![src] = Some(o) ]
       /\ allResults' = OnFetchResponse(src, o, allResults)
       /\ s_response' = IF o.kind = "ok" THEN s_response
                                         ELSE OnFetchError(s_response)
  /\ searchPromises' = [ searchPromises EXCEPT ![src] = "settled" ]
  /\ UNCHANGED << s_pc, s_origin, req, upstreamCalls, aggregated, afterFuse,
                  afterTags, smartVars, apiKeySet >>
  /\ UNCHANGED concVars

\* an upstream call fails (network or HTTP error): the .catch callback runs
FetchRejected(src) ==
  /\ s_pc = "awaiting"
  /\ searchPromises[src] = "pending"
  /\ delivered' = [ delivered EXCEPT ![src] = Some([ kind |-> "error", items |-> << >> ]) ]
  /\ s_response' = OnFetchError(s_response)
  /\ searchPromises' = [ searchPromises EXCEPT ![src] = "settled" ]
  /\ UNCHANGED << s_pc, s_origin, req, upstreamCalls, allResults, aggregated,
                  afterFuse, afterTags, smartVars, apiKeySet >>
  /\ UNCHANGED concVars

\* the handler after the await: relevance stage, tag filter, sort, res.json
SearchRespond ==
  /\ s_pc = "awaiting"
  /\ AllSettled(searchPromises)
  /\ LET fused    == RelevanceStage(req.query, allResults)
         filtered == TagStage(req.tags, fused)
         final    == ArraySort(filtered)
     IN  /\ aggregated' = allResults
         /\ afterFuse' = fused
         /\ afterTags' = filtered
         \* finalResults is allResults itself unless a stage built a new array
         /\ allResults' = IF Truthy(req.query) \/ Truthy(req.tags)
                            THEN allResults ELSE final
         /\ s_response' = Append(s_response, [ status |-> 200, body |-> final ])
  /\ s_pc' = "done"
  /\ UNCHANGED << s_origin, req, searchPromises, upstreamCalls, delivered,
                  smartVars, apiKeySet >>
  /\ UNCHANGED concVars

-----------------------------------------------------------------------------
(* POST /api/smart-search *)

\* a test that would reject only an absent description
DescriptionUndefined(d) == d = None

\* !description
DescriptionMissing(d) == ~Truthy(d)

\* a fallback that would keep the description as it is
FallbackKeywordsRaw(d) == d

\* description.split(' ').join(',')
FallbackKeywords(d) == Join(Split(d, " "), << "," >>)

\* the params of the call to /api/search
SmartSearchRequest(kw) ==
  [ query |-> Some(kw), source |-> Some("All"), tags |-> Some(str_empty),
    sort |-> Some("stars"), robotType |-> None ]

\* a client sends POST /api/smart-search: 400 without a description,
\* otherwise the prompt is built and generateContent is called with the
\* credential genAI was constructed with (nothing reads the credential
\* before, so the deployment's choice is made here)
ReceiveSmart ==
  /\ m_pc = "idle"
  /\ s_pc = "idle"
  /\ \E configured \in BOOLEAN : apiKeySet' = Some(configured)
  /\ \E d \in Descriptions :
       /\ description' = d
       /\ IF DescriptionMissing(d)
            THEN /\ m_response' = Append(m_response,
                      [ status |-> 400, keywords |-> None, results |-> << >>,
                        suggestions |-> None,
                        error |-> Some("description-empty") ])
                 /\ m_pc' = "done"
                 /\ UNCHANGED collabCalls
            ELSE /\ m_pc' = "expanding"
                 /\ collabCalls' = collabCalls + 1
                 /\ UNCHANGED m_response
  /\ UNCHANGED << keywords, searchCalls, collabOutcome, searchOutcome,
                  searchVars >>
  /\ UNCHANGED concVars

\* generateContent returns text: keywords = text.trim(), then axios.get of
\* /api/search with the keywords
CollabReturn ==
  /\ m_pc = "expanding"
  /\ apiKeySet = Some(TRUE)
  /\ \E text \in GeneratedTexts :
       /\ keywords' = Some(Trim(text))
       /\ StartSearch(SmartSearchRequest(Trim(text)), "smart")
  /\ m_pc' = "searching"
  /\ searchCalls' = searchCalls + 1
  /\ collabOutcome' = "returned"
  /\ searchOutcome' = "pending"
  /\ UNCHANGED << description, collabCalls, m_response, apiKeySet >>
  /\ UNCHANGED concVars

\* a handler without the inner try/catch: the failure reaches the outer
\* catch, which answers 500
CollabThrowFails ==
  /\ m_pc = "expanding"
  /\ m_response' = Append(m_response,
       [ status |-> 500, keywords |-> None, results |-> << >>,
         suggestions |-> None, error |-> Some("smart-search-failed") ])
  /\ m_pc' = "done"
  /\ collabOutcome' = "threw"
  /\ UNCHANGED << description, keywords, collabCalls, searchCalls,
                  searchOutcome, searchVars, apiKeySet >>
  /\ UNCHANGED concVars

\* generateContent (or response.text()) throws: the inner catch falls back to
\* keywords made from the description, then axios.get of /api/search
CollabThrow ==
  /\ m_pc = "expanding"
  /\ keywords' = Some(FallbackKeywords(description[1]))
  /\ StartSearch(SmartSearchRequest(FallbackKeywords(description[1])), "smart")
  /\ m_pc' = "searching"
  /\ searchCalls' = searchCalls + 1
  /\ collabOutcome' = "threw"
  /\ searchOutcome' = "pending"
  /\ UNCHANGED << description, collabCalls, m_response, apiKeySet >>
  /\ UNCHANGED concVars

\* the call to /api/search returns: res.json({ keywords, results }); the
\* payload has no suggestions key
SmartSearchReturn ==
  /\ m_pc = "searching"
  /\ s_pc = "done"
  /\ s_origin = "smart"
  /\ m_response' = Append(m_response,
       [ status |-> 200, keywords |-> keywords,
         results |-> s_response[Len(s_response)].body,
         suggestions |-> None, error |-> None ])
  /\ m_pc' = "done"
  /\ searchOutcome' = "returned"
  /\ UNCHANGED << description, keywords, collabCalls, searchCalls,
                  collabOutcome, searchVars, apiKeySet >>
  /\ UNCHANGED concVars

\* a call to /api/search without the timeout option: it can only throw
\* once the search handler is through
SmartSearchThrowNoTimeout ==
  /\ m_pc = "searching"
  /\ s_pc = "done"
  /\ m_response' = Append(m_response,
       [ status |-> 500, keywords |-> None, results |-> << >>,
         suggestions |-> None, error |-> Some("smart-search-failed") ])
  /\ m_pc' = "done"
  /\ searchOutcome' = "threw"
  /\ UNCHANGED << description, keywords, collabCalls, searchCalls,
                  collabOutcome, searchVars, apiKeySet >>
  /\ UNCHANGED concVars

\* the call to /api/search throws (transport error, or no answer within
\* SearchTimeout): the outer catch answers 500
SmartSearchThrow ==
  /\ m_pc = "searching"
  /\ m_response' = Append(m_response,
       [ status |-> 500, keywords |-> None, results |-> << >>,
         suggestions |-> None, error |-> Some("smart-search-failed") ])
  /\ m_pc' = "done"
  /\ searchOutcome' = "threw"
  /\ UNCHANGED << description, keywords, collabCalls, searchCalls,
                  collabOutcome, searchVars, apiKeySet >>
  /\ UNCHANGED concVars

-----------------------------------------------------------------------------
(* Two GET /api/search invocations under way together *)

\* the two invocations of the handler
Invocations == { 1, 2 }

\* most raw items one upstream response carries when two invocations run
MaxConcItems == 1

\* what an upstream may answer to an invocation
ConcOutcomes(src) ==
  { [ kind |-> "ok", items |-> b ] : b \in SeqsUpTo(RawItems(src), MaxConcItems) }
  \cup { [ kind |-> "malformed", items |-> << >> ],
         [ kind |-> "error", items |-> << >> ] }

\* the requests of the invocations: one of a client for GitHub alone, and
\* the one the smart-search handler sends
ConcRequests ==
  { [ NoRequest EXCEPT !.source = Some("GitHub") ],
    SmartSearchRequest(str_arm) }

\* an accumulator declared outside the handler: one cell for every invocation
AccumulatorShared(id) == 1

\* let allResults = [] is a local of the handler: one cell per invocation
AccumulatorOf(id) == id

\* the handler of invocation id up to the await
ConcReceiveSearch(id) ==
  /\ c_pc[id] = "idle"
  /\ \E r \in ConcRequests :
       /\ c_req' = [ c_req EXCEPT ![id] = r ]
       /\ c_searchPromises' =
            [ c_searchPromises EXCEPT ![id] =
                [ src \in Sources |->
                    IF SourceEnabled(r.source, src) THEN "pending" ELSE "none" ] ]
  /\ c_pc' = [ c_pc EXCEPT ![id] = "awaiting" ]
  /\ c_allResults' = [ c_allResults EXCEPT ![AccumulatorOf(id)] = << >> ]
  /\ c_overlapped' =
       (c_overlapped \/ \E other \in Invocations \ { id } : c_pc[other] = "awaiting")
  /\ UNCHANGED << c_delivered, c_response, searchVars, smartVars, apiKeySet >>

\* an upstream answers invocation id with a body: its .then callback runs
\* (and the .catch callback when that throws)
ConcFetchFulfilled(id, src) ==
  /\ c_pc[id] = "awaiting"
  /\ c_searchPromises[id][src] = "pending"
  /\ \E o \in ConcOutcomes(src) :
       /\ o.kind # "error"
       /\ c_delivered' = [ c_delivered EXCEPT ![id][src] = Some(o) ]
       /\ c_allResults' =
            [ c_allResults EXCEPT ![AccumulatorOf(id)] = OnFetchResponse(src, o, @) ]
       /\ c_response' =
            [ c_response EXCEPT ![id] = IF o.kind = "ok" THEN @ ELSE OnFetchError(@) ]
  /\ c_searchPromises' = [ c_searchPromises EXCEPT ![id][src] = "settled" ]
  /\ UNCHANGED << c_pc, c_req, c_overlapped, searchVars, smartVars, apiKeySet >>

\* an upstream call of invocation id fails: its .catch callback runs
ConcFetchRejected(id, src) ==
  /\ c_pc[id] = "awaiting"
  /\ c_searchPromises[id][src] = "pending"
  /\ c_delivered' =
       [ c_delivered EXCEPT ![id][src] = Some([ kind |-> "error", items |-> << >> ]) ]
  /\ c_response' = [ c_response EXCEPT ![id] = OnFetchError(@) ]
  /\ c_searchPromises' = [ c_searchPromises EXCEPT ![id][src] = "settled" ]
  /\ UNCHANGED << c_pc, c_req, c_allResults, c_overlapped, searchVars,
                  smartVars, apiKeySet >>

\* the handler of invocation id after the await
ConcSearchRespond(id) ==
  /\ c_pc[id] = "awaiting"
  /\ AllSettled(c_searchPromises[id])
  /\ LET acc      == c_allResults[AccumulatorOf(id)]
         fused    == RelevanceStage(c_req[id].query, acc)
         filtered == TagStage(c_req[id].tags, fused)
         final    == ArraySort(filtered)
     IN  /\ c_allResults' =
              [ c_allResults EXCEPT ![AccumulatorOf(id)] =
                  IF Truthy(c_req[id].query) \/ Truthy(c_req[id].tags)
                    THEN @ ELSE final ]
         /\ c_response' =
              [ c_response EXCEPT ![id] = Append(@, [ status |-> 200, body |-> final ]) ]
  /\ c_pc' = [ c_pc EXCEPT ![id] = "done" ]
  /\ UNCHANGED << c_req, c_searchPromises, c_delivered, c_overlapped,
                  searchVars, smartVars, apiKeySet >>

-----------------------------------------------------------------------------
(* Specification *)

Init ==
  /\ s_pc = "idle"
  /\ s_origin = "none"
  /\ req = NoRequest
  /\ searchPromises = [ src \in Sources |-> "none" ]
  /\ upstreamCalls = [ src \in Sources |-> None ]
  /\ delivered = [ src \in Sources |-> None ]
  /\ allResults = << >>
  /\ aggregated = << >>
  /\ afterFuse = << >>
  /\ afterTags = << >>
  /\ s_response = << >>
  /\ m_pc = "idle"
  /\ apiKeySet = None
  /\ description = None
  /\ keywords = None
  /\ collabCalls = 0
  /\ searchCalls = 0
  /\ collabOutcome = "none"
  /\ searchOutcome = "none"
  /\ m_response = << >>
  /\ c_pc = [ id \in Invocations |-> "idle" ]
  /\ c_req = [ id \in Invocations |-> NoRequest ]
  /\ c_searchPromises = [ id \in Invocations |-> [ src \in Sources |-> "none" ] ]
  /\ c_delivered = [ id \in Invocations |-> [ src \in Sources |-> None ] ]
  /\ c_allResults = [ id \in Invocations |-> << >> ]
  /\ c_response = [ id \in Invocations |-> << >> ]
  /\ c_overlapped = FALSE

Next ==
  \/ ReceiveSearch
  \/ \E src \in Sources : FetchFulfilled(src)
  \/ \E src \in Sources : FetchRejected(src)
  \/ SearchRespond
  \/ ReceiveSmart
  \/ CollabReturn
  \/ CollabThrow
  \/ SmartSearchReturn
  \/ SmartSearchThrow

Spec == Init /\ [][Next]_vars

\* The timer axios arms for the call to /api/search (timeout: 15000) fires
\* unless the call has ended: the call cannot stay pending for ever.
LiveSpec == Spec /\ WF_vars(SmartSearchThrow)

ConcNext ==
  \/ \E id \in Invocations : ConcReceiveSearch(id)
  \/ \E id \in Invocations, src \in Sources : ConcFetchFulfilled(id, src)
  \/ \E id \in Invocations, src \in Sources : ConcFetchRejected(id, src)
  \/ \E id \in Invocations : ConcSearchRespond(id)

\* two invocations of the /api/search handler, their callbacks interleaved
ConcurrentSpec == Init /\ [][ConcNext]_vars

-----------------------------------------------------------------------------
(* Properties *)

\* the body of the response of the search handler
ResponseBody == s_response[Len(s_response)].body

\* the Projects the normalizers can produce from the upstream items
Projects ==
  { standardizeGithubProject(x) : x \in GithubRawItems }
  \cup { standardizeHuggingFaceModel(x) : x \in HuggingFaceRawItems }

\* the fetch of src was started and did not yield a usable body
FetchFailed(src) ==
  /\ searchPromises[src] = "settled"
  /\ delivered[src] # None
  /\ delivered[src][1].kind # "ok"

\* the fetch of src was started and its body was normalized
FetchSucceeded(src) ==
  /\ searchPromises[src] = "settled"
  /\ delivered[src] # None
  /\ delivered[src][1].kind = "ok"

\* whether part occurs in whole as a run of consecutive elements
IsRunOf(part, whole) ==
  \E off \in 0..(Len(whole) - Len(part)) :
    SubSeq(whole, off + 1, off + Len(part)) = part

C2_JoinWaitsForAll ==
  /\ (s_pc = "done" \/ s_response # << >>) =>
       \A src \in Sources : searchPromises[src] # "pending"
  /\ s_pc = "done" =>
       \A src \in Sources :
         FetchSucceeded(src) =>
           IsRunOf(NormalizeBody(src, delivered[src][1].items), aggregated)

\* C2 witness: GitHub failed first or last, Hugging Face succeeded with
\* items, and the aggregated list holds them
C2_Witness ==
  /\ s_pc = "done"
  /\ FetchFailed(GitHub)
  /\ delivered[GitHub][1].kind = "error"
  /\ FetchSucceeded(HuggingFace)
  /\ Len(delivered[HuggingFace][1].items) = 2
  /\ Len(aggregated) = 2

\* C3: no two Projects of the response share (id, source).
C3_UniqueIdSource ==
  s_pc = "done" =>
    \A i, j \in 1..Len(ResponseBody) :
      (i < j) =>
        ~(ResponseBody[i].id = ResponseBody[j].id
          /\ ResponseBody[i].source = ResponseBody[j].source)

\* popularity of a Project as the claim defines it: stars for GitHub items,
\* downloads for Hugging Face items, a missing value counting as 0
Popularity(p) ==
  IF p.source = GitHub
    THEN (IF p.stars = None THEN 0 ELSE p.stars[1])
    ELSE (IF p.downloads = None THEN 0 ELSE p.downloads[1])

\* the elements of list with popularity v, in their order in list
WithPopularity(list, v) == SelectSeq(list, LAMBDA p : Popularity(p) = v)

\* C4: for every sort parameter the response is ordered by non-increasing
\* popularity, and for each popularity value its items appear in the order
\* they had just before the final sort (nothing is lost or added).
C4_SortedStable ==
  s_pc = "done" =>
    /\ Len(ResponseBody) = Len(afterTags)
    /\ \A i \in 1..(Len(ResponseBody) - 1) :
         Popularity(ResponseBody[i]) >= Popularity(ResponseBody[i + 1])
    /\ \A k \in 1..Len(afterTags) :
         WithPopularity(ResponseBody, Popularity(afterTags[k]))
           = WithPopularity(afterTags, Popularity(afterTags[k]))

\* C4 witness: the sort moved items, and two different items of equal
\* popularity are in the response
C4_Witness ==
  /\ s_pc = "done"
  /\ Len(ResponseBody) >= 3
  /\ ResponseBody # afterTags
  /\ \E i, j \in 1..Len(ResponseBody) :
       /\ i < j
       /\ ResponseBody[i] # ResponseBody[j]
       /\ Popularity(ResponseBody[i]) = Popularity(ResponseBody[j])

\* the terms of a comma-separated list: the comma-free stretches between
\* two commas of the list with a comma put at each end
RequestedTags(tags) ==
  LET padded == << "," >> \o tags \o << "," >>
  IN  { SubSeq(padded, i + 1, j - 1) :
          <<i, j>> \in { pr \in (1..Len(padded)) \X (1..Len(padded)) :
                          /\ pr[1] < pr[2]
                          /\ padded[pr[1]] = ","
                          /\ padded[pr[2]] = ","
                          /\ \A m \in (pr[1] + 1)..(pr[2] - 1) : padded[m] # "," } }

HasRequestedTag(p, tags) ==
  \E i \in 1..Len(p.tags) : p.tags[i] \in RequestedTags(tags)

\* how often x occurs in list
Count(list, x) == Cardinality({ i \in 1..Len(list) : list[i] = x })

\* C5: with a non-empty tags parameter every Project of the response has a
\* requested tag and every Project that left the relevance stage with a
\* requested tag is in the response (as often as it was there); with tags
\* absent or empty the tag stage removes nothing.
C5_TagFilter ==
  s_pc = "done" =>
    IF req.tags # None /\ req.tags[1] # << >>
      THEN /\ \A i \in 1..Len(ResponseBody) :
                HasRequestedTag(ResponseBody[i], req.tags[1])
           /\ \A i \in 1..Len(afterFuse) :
                HasRequestedTag(afterFuse[i], req.tags[1]) =>
                  Count(ResponseBody, afterFuse[i]) = Count(afterFuse, afterFuse[i])
      ELSE /\ afterTags = afterFuse
           /\ \A i \in 1..Len(afterFuse) :
                Count(ResponseBody, afterFuse[i]) = Count(afterFuse, afterFuse[i])

\* C5 witness: a two-term tags parameter kept some Projects and removed
\* others
C5_Witness ==
  /\ s_pc = "done"
  /\ req.tags = Some(str_ros_nav)
  /\ Len(ResponseBody) > 0
  /\ Len(ResponseBody) < Len(afterFuse)

\* C6: without a query the relevance stage passes the aggregated list
\* through (and with no tag filter the response is a permutation of it);
\* with a query every Project of the response is one the fuzzy matcher
\* reports as matching, and no non-matching Project is in the response.
C6_RelevanceStage ==
  s_pc = "done" =>
    IF req.query = None \/ req.query[1] = << >>
      THEN /\ afterFuse = aggregated
           /\ (req.tags = None \/ req.tags[1] = << >>) =>
                /\ Len(ResponseBody) = Len(aggregated)
                /\ \A i \in 1..Len(aggregated) :
                     Count(ResponseBody, aggregated[i]) = Count(aggregated, aggregated[i])
      ELSE /\ \A i \in 1..Len(ResponseBody) :
                FuseMatches(req.query[1], ResponseBody[i])
           /\ \A i \in 1..Len(aggregated) :
                ~FuseMatches(req.query[1], aggregated[i]) =>
                  Count(ResponseBody, aggregated[i]) = 0

\* C6 witness: a query kept the matching Projects and removed another
C6_Witness ==
  /\ s_pc = "done"
  /\ s_origin = "client"
  /\ req.query = Some(str_arm)
  /\ req.tags = None
  /\ Len(ResponseBody) > 0
  /\ Len(ResponseBody) < Len(aggregated)

\* whether text contains kw as a substring, ignoring case
ContainsIgnoreCase(text, kw) ==
  \E p \in 1..(Len(text) - Len(kw) + 1) :
    ToLower(SubSeq(text, p, p + Len(kw) - 1)) = ToLower(kw)

\* whether a Project matches, ignoring case, a keyword of the category in
\* its name, its description or one of its tags
MatchesCategory(p, robotType) ==
  \E n \in 1..Len(RobotTypeKeywords(robotType)) :
    LET kw == RobotTypeKeywords(robotType)[n]
    IN  \/ ContainsIgnoreCase(p.name, kw)
        \/ (p.description # None /\ ContainsIgnoreCase(p.description[1], kw))
        \/ \E i \in 1..Len(p.tags) : ContainsIgnoreCase(p.tags[i], kw)

\* C7: with a recognized category every Project of the response matches a
\* keyword of the category; with no or an unrecognized category the
\* response has every Project the tag stage left.
C7_CategoryFilter ==
  s_pc = "done" =>
    IF req.robotType # None /\ req.robotType[1] \in RecognizedRobotTypes
      THEN \A i \in 1..Len(ResponseBody) :
             MatchesCategory(ResponseBody[i], req.robotType)
      ELSE Len(ResponseBody) = Len(afterTags)

\* a search request has been taken up by the handler
SearchStarted == s_pc # "idle"

\* C8: source=All starts both fetches; source=GitHub or 'Hugging Face'
\* starts that fetch only and the response has no Project of the other
\* source; any other source (or none) starts no fetch, the handler can
\* answer at once, and its answer is 200 with an empty list.
C8_SourceSelection ==
  SearchStarted =>
    /\ req.source = Some("All") =>
         \A src \in Sources :
           searchPromises[src] # "none" /\ upstreamCalls[src] # None
    /\ \A src \in Sources :
         req.source = Some(src) =>
           /\ searchPromises[src] # "none" /\ upstreamCalls[src] # None
           /\ \A other \in Sources \ { src } :
                /\ searchPromises[other] = "none" /\ upstreamCalls[other] = None
                /\ s_pc = "done" =>
                     \A i \in 1..Len(ResponseBody) : ResponseBody[i].source # other
    /\ (req.source = None \/ req.source[1] \notin { "All", GitHub, HuggingFace }) =>
         /\ \A src \in Sources :
              searchPromises[src] = "none" /\ upstreamCalls[src] = None
         /\ s_pc = "awaiting" => ENABLED SearchRespond
         /\ s_pc = "done" => s_response = << [ status |-> 200, body |-> << >> ] >>

\* C8 witness: source=GitHub, only GitHub was fetched, and the response
\* carries its Projects
C8_Witness ==
  /\ s_pc = "done"
  /\ req.source = Some(GitHub)
  /\ searchPromises[HuggingFace] = "none"
  /\ Len(ResponseBody) > 0

\* C9: a smart-search request with a missing or empty description is
\* answered 400, once, and neither the text-completion collaborator nor the
\* search pipeline is called.
C9_MissingDescription400 ==
  (m_pc # "idle" /\ (description = None \/ description[1] = << >>)) =>
    /\ m_pc = "done"
    /\ Len(m_response) = 1
    /\ m_response[1].status = 400
    /\ m_response[1].error # None
    /\ collabCalls = 0
    /\ searchCalls = 0
    /\ s_pc = "idle"

\* C9 witness: the empty string as description was answered 400
C9_Witness ==
  /\ m_pc = "done"
  /\ description = Some(str_empty)
  /\ m_response[1].status = 400

\* C10: without a configured credential a smart-search request with a
\* description is answered 500 with an error payload, never 200 with
\* results.
C10_NoCredential500 ==
  (m_pc = "done" /\ apiKeySet = Some(FALSE)
     /\ description # None /\ description[1] # << >>) =>
    /\ m_response[1].status = 500
    /\ m_response[1].error # None

\* C11: with a configured credential, once generateContent has thrown the
\* handler has gone on to the search with fallback keywords, and when that
\* search call returns the answer is 200 with keywords and results; 500 is
\* sent only when the search call itself throws.
C11_CollabFailureNotFatal ==
  (apiKeySet = Some(TRUE) /\ collabOutcome = "threw") =>
    /\ searchCalls = 1
    /\ keywords # None
    /\ m_pc \in { "searching", "done" }
    /\ (m_pc = "done" /\ searchOutcome = "returned") =>
         /\ Len(m_response) = 1
         /\ m_response[1].status = 200
         /\ m_response[1].keywords = keywords
         /\ m_response[1].results = ResponseBody
    /\ (m_pc = "done" /\ m_response[1].status # 200) => searchOutcome = "threw"

\* C11 witness: credential configured, generateContent threw, the search
\* returned and the answer is 200
C11_Witness ==
  /\ apiKeySet = Some(TRUE)
  /\ collabOutcome = "threw"
  /\ searchOutcome = "returned"
  /\ m_response[1].status = 200

\* C12: when the search with the expanded keywords returns no result a
\* second search is made with the raw description as query; when it
\* returns a result no second search is made.
C12_EmptyResultFallback ==
  (m_pc = "done" /\ searchOutcome = "returned") =>
    IF m_response[1].results = << >>
      THEN searchCalls = 2 /\ req.query = description
      ELSE searchCalls = 1

\* C13: every 200 answer of smart-search carries a suggestions list, which
\* is empty when the search gave no result.
C13_SuggestionsPresent ==
  \A i \in 1..Len(m_response) :
    m_response[i].status = 200 =>
      /\ m_response[i].suggestions # None
      /\ m_response[i].results = << >> => m_response[i].suggestions = Some(<< >>)

\* the smart-search handler has answered as the call to /api/search ended
SearchCallAnswered ==
  /\ Len(m_response) <= 1
  /\ (m_pc = "searching") => (m_response = << >> /\ searchOutcome = "pending")
  /\ (m_pc = "done" /\ searchOutcome = "returned") =>
       (Len(m_response) = 1 /\ m_response[1].status = 200)
  /\ (m_pc = "done" /\ searchOutcome = "threw") =>
       (Len(m_response) = 1 /\ m_response[1].status = 500)

\* C14: once the call to /api/search is issued the request gets exactly one
\* answer, 200 when the call returns and 500 when it throws or times out,
\* and it always gets it: the request does not stay pending for ever.
C14_SearchCallAlwaysAnswered ==
  /\ []SearchCallAnswered
  /\ (m_pc = "searching") ~> (m_pc = "done" /\ Len(m_response) = 1)

\* C14 witness: the search handler is still waiting for a fetch, and the
\* smart-search request was answered 500
C14_Witness ==
  /\ m_pc = "done"
  /\ searchOutcome = "threw"
  /\ s_pc = "awaiting"
  /\ \E src \in Sources : searchPromises[src] = "pending"
  /\ m_response[1].status = 500

\* the description with every space replaced by a comma
SpacesToCommas(d) == [ i \in 1..Len(d) |-> IF d[i] = " " THEN "," ELSE d[i] ]

BodyOf(src) ==
  IF FetchSucceeded(src) THEN NormalizeBody(src, delivered[src][1].items)
                         ELSE << >>

\* the accumulator as the fetch callbacks left it
Accumulated == IF s_pc = "done" THEN aggregated ELSE allResults

\* the accumulator is the bodies of the successful fetches, in settle order
AccumulatorExact ==
  s_pc \in { "awaiting", "done" } =>
    Accumulated \in { BodyOf(GitHub) \o BodyOf(HuggingFace),
                      BodyOf(HuggingFace) \o BodyOf(GitHub) }

\* while the fetches are under way, a step that changes the accumulator
\* settles exactly one fetch and appends that fetch's body to it
AccumulatorStep ==
  (s_pc = "awaiting" /\ s_pc' = "awaiting" /\ allResults' # allResults) =>
    \E src \in Sources :
      /\ searchPromises[src] = "pending"
      /\ searchPromises' = [ searchPromises EXCEPT ![src] = "settled" ]
      /\ delivered'[src] # None
      /\ delivered'[src][1].kind = "ok"
      /\ allResults' =
           allResults \o NormalizeBody(src, delivered'[src][1].items)

\* C16: whatever the settle order, the accumulator holds exactly the
\* normalized items of the fetches that succeeded, once per occurrence, and
\* nothing of a failed fetch; it changes only in the completion step of one
\* fetch at a time.
C16_AccumulatorExact == []AccumulatorExact /\ [][AccumulatorStep]_vars

\* C16 witness: both fetches succeeded with items, Hugging Face settled
\* first, and the join is over
C16_Witness ==
  /\ s_pc = "done"
  /\ FetchSucceeded(GitHub) /\ FetchSucceeded(HuggingFace)
  /\ Len(BodyOf(GitHub)) = 2 /\ Len(BodyOf(HuggingFace)) = 2
  /\ aggregated = BodyOf(HuggingFace) \o BodyOf(GitHub)

\* C17: the list returned is the same whichever fetch settles first: it is
\* the one obtained when the GitHub fetch settles first.
C17_RankingIndependentOfSettleOrder ==
  s_pc = "done" =>
    ResponseBody =
      ArraySort(TagStage(req.tags,
        RelevanceStage(req.query, BodyOf(GitHub) \o BodyOf(HuggingFace))))

\* the lookback, in days, the sort parameter asks for
RequestedWindow(sort) ==
  CASE sort = Some("growth_week")  -> Some(7)
    [] sort = Some("growth_month") -> Some(30)
    [] OTHER -> None

\* C19: the upstream request of every enabled source carries the time
\* window of the sort parameter (7 days for growth_week, 30 days for
\* growth_month) and none otherwise, for Hugging Face as for GitHub.
C19_TimeWindowEverySource ==
  s_pc # "idle" =>
    \A src \in Sources :
      SourceEnabled(req.source, src) =>
        /\ upstreamCalls[src] # None
        /\ upstreamCalls[src][1].pushedAfterDaysAgo = RequestedWindow(req.sort)

\* the comma-separated terms of the query of the request
QueryTerms == IF req.query = None THEN << >> ELSE Split(req.query[1], ",")

\* C20: every enabled source receives one upstream call per comma-separated
\* term of the query: several calls for several terms, one for one term.
C20_OneCallPerTerm ==
  (s_pc # "idle" /\ Truthy(req.query)) =>
    \A src \in Sources :
      SourceEnabled(req.source, src) =>
        Len(upstreamCalls[src]) = Len(QueryTerms)

\* the normalized items the fetch of src has contributed to invocation id
OwnBody(id, src) ==
  IF /\ c_searchPromises[id][src] = "settled"
     /\ c_delivered[id][src] # None
     /\ c_delivered[id][src][1].kind = "ok"
    THEN NormalizeBody(src, c_delivered[id][src][1].items)
    ELSE << >>

\* the lists invocation id can answer from its own fetches alone
OwnAnswers(id) ==
  { ArraySort(TagStage(c_req[id].tags, RelevanceStage(c_req[id].query, acc))) :
      acc \in { OwnBody(id, GitHub) \o OwnBody(id, HuggingFace),
                OwnBody(id, HuggingFace) \o OwnBody(id, GitHub) } }

\* C18: for every interleaving of two invocations, each one answers once,
\* with the list made of the upstream responses to its own fetches only:
\* every Project of the response comes from one of them.
C18_InvocationsIsolated ==
  \A id \in Invocations :
    c_pc[id] = "done" =>
      /\ Len(c_response[id]) = 1
      /\ c_response[id][1].body \in OwnAnswers(id)
      /\ \A i \in 1..Len(c_response[id][1].body) :
           \E src \in Sources :
             Includes(OwnBody(id, src), c_response[id][1].body[i])

\* C18 witness: the two invocations overlapped, the upstreams answered them
\* different items, and each answered its own
C18_Witness ==
  /\ c_overlapped
  /\ c_pc[1] = "done" /\ c_pc[2] = "done"
  /\ OwnBody(1, GitHub) # << >>
  /\ OwnBody(2, GitHub) # << >>
  /\ OwnBody(1, GitHub) # OwnBody(2, GitHub)
  /\ c_response[1][1].body # << >>
  /\ c_response[2][1].body # << >>
  /\ c_response[1][1].body # c_response[2][1].body

\* p has a tag that equals a requested tag when letter case is ignored
HasRequestedTagIgnoringCase(p, tags) ==
  \E i \in 1..Len(p.tags) :
    \E t \in RequestedTags(tags) : ToLower(p.tags[i]) = ToLower(t)

\* C21: with a tags parameter, every Project that left the relevance stage
\* with a tag equal to a requested tag up to letter case (tag 'ROS',
\* tags=ros) is in the response.
C21_TagFilterIgnoresCase ==
  (s_pc = "done" /\ Truthy(req.tags)) =>
    \A i \in 1..Len(afterFuse) :
      HasRequestedTagIgnoringCase(afterFuse[i], req.tags[1]) =>
        Includes(ResponseBody, afterFuse[i])

\* C22: every raw item of a successful fetch yields one Project, and every
\* Project has a description (the empty string when the raw item had none),
\* a list of tags and a popularity value (0 when the raw item had none).
C22_NormalizationDefaults ==
  s_pc = "done" =>
    /\ Len(aggregated) =
         Len(BodyOf(GitHub)) + Len(BodyOf(HuggingFace))
    /\ \A src \in Sources :
         FetchSucceeded(src) =>
           Len(BodyOf(src)) = Len(delivered[src][1].items)
    /\ \A i \in 1..Len(aggregated) :
         /\ aggregated[i].description # None
         /\ DOMAIN aggregated[i].tags = 1..Len(aggregated[i].tags)
         /\ IF aggregated[i].source = GitHub
              THEN aggregated[i].stars # None
              ELSE aggregated[i].downloads # None

====
